---- MODULE Spec2Model ----
(***************************************************************************)
(* A model of DebugUtils.hpp: the compile-time switch DEBUGUTILS_ON, the   *)
(* scoped log-file redirector DebugFileOn, the labeled-values printer      *)
(* (debugV / debugPrinter / printer) and the value formatter print().      *)
(*                                                                         *)
(* Three state machines share the module:                                  *)
(*   Spec        the diagnostic sink std::cerr, its stream buffer and the  *)
(*               DebugFileOn guards that redirect it;                      *)
(*   SpecPrinter one call of debugPrinter and the recursion of printer     *)
(*               over the stringified argument list;                       *)
(*   SpecFormat  one call of print() on a value.                           *)
(***************************************************************************)
EXTENDS Integers, Sequences, FiniteSets, TLC

VARIABLES
    on,          \* DEBUGUTILS_ON != 0, fixed when the program is built
    rdbuf,       \* std::cerr.rdbuf(): 0 (the original buffer) or the id
                 \* of the guard whose mErrorLogFile buffer is installed
    guards,      \* guard id -> [state, opened, saved]
    log,         \* every write made through std::cerr, in order
    live,        \* ids of the guards alive, in construction order
    lastDead,    \* id of the guard destroyed last, 0 when none was
    lifo,        \* every destruction so far destroyed the youngest live guard
    calls,       \* number of debugM / debugV / debugArr calls made
    \* one call of debugV( e1, ..., ek )
    pc,          \* "idle", "printing" or "done"
    file,        \* __FILE__, as its path components
    lineNbr,     \* __LINE__
    exprs,       \* the argument expressions e1 .. ek, each as its characters
    names,       \* #__VA_ARGS__, the characters before the terminating NUL
    pos,         \* offset of printer's names pointer from the string's start
    remaining,   \* values not yet printed: 1 + sizeof...(tail)
    labels,      \* the labels written so far
    out,         \* the characters written to std::cerr by this call
    oob,         \* printer has read past the terminating NUL
    \* one call of print( x )
    castNegInf,  \* what (int) of minus infinity yields on this build
    fpc,         \* "idle" or "done"
    fx,          \* the object passed to print
    fx0,         \* the object as it was before the call
    fout,        \* the characters print wrote to std::cerr
    frule        \* the overload or if-constexpr branch that formatted fx

sinkVars == <<rdbuf, guards, log, live, lastDead, lifo, calls>>

printerVars == <<pc, file, lineNbr, exprs, names, pos, remaining, labels, out, oob>>

formatVars == <<castNegInf, fpc, fx, fx0, fout, frule>>

vars == <<on, sinkVars, printerVars, formatVars>>

\* What the actions of one machine leave alone.
sinkFrame == <<on, printerVars, formatVars>>
printerFrame == <<on, sinkVars, formatVars>>
formatFrame == <<on, sinkVars, printerVars>>

-----------------------------------------------------------------------------
(* Bounds *)

MaxGuards == 2
MaxCalls == 2
MaxArgs == 3
MaxGarbage == 1
MaxLen == 3
MaxElem == 3
MaxCount == 11

-----------------------------------------------------------------------------
(* The diagnostic sink and the DebugFileOn guards *)

GuardIds == 1 .. MaxGuards

\* Stream buffers are numbered: the buffer std::cerr starts with is 0, the
\* filebuf of guard g's mErrorLogFile is g, and nullptr is -1.  A write that
\* reaches no buffer at all is recorded with destination -2.
OrigBuf == 0
NullBuf == -1
Nowhere == -2

NoGuard == [state |-> "none", opened |-> FALSE, saved |-> NullBuf]

\* Where a write through std::cerr lands.  The installed buffer is either
\* the original one, or the filebuf of a guard's mErrorLogFile.  Once that
\* guard is destroyed the filebuf is gone and std::cerr holds a dangling
\* pointer: the write is undefined behaviour and may land anywhere or nowhere.
Dests(buf, gs) ==
    IF buf = OrigBuf THEN {OrigBuf}
    ELSE IF gs[buf].state = "alive" THEN {buf}
    ELSE {OrigBuf, Nowhere} \cup {g \in GuardIds : gs[g].state = "alive"}

Entry(dest, msg, by, lv, prev) ==
    [dest |-> dest, msg |-> msg, by |-> by, live |-> lv, prev |-> prev]

\* DebugUtilsPolicy: std::true_type when DEBUGUTILS_ON is non-zero.
DebugUtilsPolicy(sw) == sw

\* Mutant of Emits: the std::false_type overloads write as well.
EmitsAlways(policy) == TRUE

\* Overload selection on the policy type: the std::true_type overloads of
\* debugPrinter, debugPrinterArr and debugMsg write, the std::false_type
\* overloads have empty bodies.
Emits(policy) == policy

\* Mutant of RedirectsOnOpen: the buffer is installed whether or not the
\* file opened.
RedirectsAlways(ok) == TRUE

\* if ( mErrorLogFile ): the constructor redirects only when the open succeeded.
RedirectsOnOpen(ok) == ok

\* Mutant of SavedBuff: the guard remembers the process's original buffer
\* instead of the buffer installed when it was constructed.
SavedBuffOriginal(cur) == OrigBuf

\* mOriginalCerrBuff = std::cerr.rdbuf()
SavedBuff(cur) == cur

\* Mutant of ClosingNoticeBuf: the destructor restores first and writes after.
ClosingNoticeAfterRestore(cur, saved) == IF saved # NullBuf THEN saved ELSE cur

\* The destructor writes its notice before it restores the buffer, so the
\* notice goes through the buffer installed at that moment.
ClosingNoticeBuf(cur, saved) == cur

\* if ( mOriginalCerrBuff ) std::cerr.rdbuf( mOriginalCerrBuff )
Restored(cur, saved) == IF saved # NullBuf THEN saved ELSE cur

NextId == Cardinality({g \in GuardIds : guards[g].state # "none"}) + 1

SinkInit ==
    /\ rdbuf = OrigBuf
    /\ guards = [g \in GuardIds |-> NoGuard]
    /\ log = <<>>
    /\ live = <<>>
    /\ lastDead = 0
    /\ lifo = TRUE
    /\ calls = 0

\* DebugFileOn( filename ) with the switch off: DebugFileOnBase<std::false_type>,
\* whose constructor has an empty body.
ConstructOff ==
    /\ ~DebugUtilsPolicy(on)
    /\ NextId \in GuardIds
    /\ guards' = [guards EXCEPT ![NextId] = [state |-> "alive", opened |-> FALSE, saved |-> NullBuf]]
    /\ live' = Append(live, NextId)
    /\ UNCHANGED <<rdbuf, log, lastDead, lifo, calls, sinkFrame>>

\* DebugFileOn( filename ) with the switch on; ok is whether the file opened.
ConstructOn(ok) ==
    /\ DebugUtilsPolicy(on)
    /\ NextId \in GuardIds
    /\ LET g == NextId
           redirect == RedirectsOnOpen(ok)
           buf == IF redirect THEN g ELSE rdbuf
           gs == [guards EXCEPT ![g] = [state |-> "alive", opened |-> ok,
                                        saved |-> IF redirect THEN SavedBuff(rdbuf) ELSE NullBuf]]
           lv == Append(live, g)
           \* a buffer installed over a file that did not open takes no output
           ds == IF buf = g /\ ~ok THEN {Nowhere} ELSE Dests(buf, gs)
       IN /\ guards' = gs
          /\ rdbuf' = buf
          /\ live' = lv
          /\ \E d \in ds :
                log' = Append(log, Entry(d, IF ok THEN "redirected" ELSE "unable", g, lv, lastDead))
    /\ UNCHANGED <<lastDead, lifo, calls, sinkFrame>>

\* The guard's destructor with the switch off: nothing but the object goes.
DestroyOff(g) ==
    /\ ~DebugUtilsPolicy(on)
    /\ guards[g].state = "alive"
    /\ guards' = [guards EXCEPT ![g].state = "dead"]
    /\ live' = SelectSeq(live, LAMBDA h : h # g)
    /\ lastDead' = g
    /\ lifo' = (lifo /\ g = live[Len(live)])
    /\ UNCHANGED <<rdbuf, log, calls, sinkFrame>>

\* ~DebugFileOnBase() with the switch on: the closing notice, the restore,
\* and the ofstream's own destructor closing the file.
DestroyOn(g) ==
    /\ DebugUtilsPolicy(on)
    /\ guards[g].state = "alive"
    /\ \E d \in Dests(ClosingNoticeBuf(rdbuf, guards[g].saved), guards) :
          log' = Append(log, Entry(d, "closing", g, live, lastDead))
    /\ rdbuf' = Restored(rdbuf, guards[g].saved)
    /\ guards' = [guards EXCEPT ![g].state = "dead"]
    /\ live' = SelectSeq(live, LAMBDA h : h # g)
    /\ lastDead' = g
    /\ lifo' = (lifo /\ g = live[Len(live)])
    /\ UNCHANGED <<calls, sinkFrame>>

\* One call of debugMsg, debugPrinter or debugPrinterArr: each writes its
\* line through std::cerr when the policy is std::true_type, and has an
\* empty body otherwise.
DebugCall(fn) ==
    /\ calls < MaxCalls
    /\ calls' = calls + 1
    /\ IF Emits(DebugUtilsPolicy(on))
       THEN \E d \in Dests(rdbuf, guards) :
               log' = Append(log, Entry(d, fn, 0, live, lastDead))
       ELSE log' = log
    /\ UNCHANGED <<rdbuf, guards, live, lastDead, lifo, sinkFrame>>

debugMsg == DebugCall("debugMsg")
debugPrinter == DebugCall("debugPrinter")
debugPrinterArr == DebugCall("debugPrinterArr")

Construct == ConstructOff \/ \E ok \in BOOLEAN : ConstructOn(ok)
Destroy == \E g \in GuardIds : DestroyOff(g) \/ DestroyOn(g)

SinkNext ==
    \/ Construct
    \/ Destroy
    \/ debugMsg
    \/ debugPrinter
    \/ debugPrinterArr

-----------------------------------------------------------------------------
(* debugV, debugPrinter and printer *)

\* Argument expressions a call site may hold, as characters.
ExprTexts ==
    { <<"a">>,
      <<"f", "(", "a", ",", "b", ")">>,
      <<"v", "[", "a", ",", "b", "]">>,
      <<"a", "<", "b">>,
      <<"p", "-", ">", "q">>,
      <<"T", "<", "a", ",", "b", ">", "{", "}">>,
      <<"f", "(", "p", "-", ">", "q", ",", "b", ")">> }

\* The preprocessor's # operator keeps the tokens' spelling and turns any
\* white space between two tokens into one space, so a comma between two
\* arguments is spelled with or without spaces around it, as the call site is.
Separators == { <<",">>, <<",", " ">>, <<" ", ",", " ">> }

\* __FILE__ values, as path components.
Files == { <<"main.cpp">>, <<"src", "main.cpp">> }

Lines == { 39 }

RECURSIVE Stringify(_, _)
\* #__VA_ARGS__
Stringify(es, sep) ==
    IF Len(es) = 0 THEN <<>>
    ELSE IF Len(es) = 1 THEN es[1]
    ELSE es[1] \o sep \o Stringify(Tail(es), sep)

NUL == "\\0"

\* names[i] for an index inside the string or at its terminator.
CharAt(str, i) == IF i < Len(str) THEN str[i + 1] ELSE NUL

Opens == {"(", "<", "{"}
Closes == {")", ">", "}"}

RECURSIVE Scan(_, _, _, _)
\* The for loop of printer: from offset p, i and bracket as the loop leaves them.
Scan(str, p, i, bracket) ==
    LET c == CharAt(str, p + i) IN
    IF c # NUL /\ (c # "," \/ bracket > 0)
    THEN Scan(str, p, i + 1,
              IF c \in Opens THEN bracket + 1
              ELSE IF c \in Closes THEN bracket - 1
              ELSE bracket)
    ELSE i

\* std::filesystem::path{ filename }.filename().string()
Basename(path) == path[Len(path)]

\* print( head ) for the j-th value; the values of a call are the integers
\* 1 .. k, written by the default stream output.
PrintValue(j) == <<ToString(j)>>

PrinterInit ==
    /\ pc = "idle"
    /\ file = <<>>
    /\ lineNbr = 0
    /\ exprs = <<>>
    /\ names = <<>>
    /\ pos = 0
    /\ remaining = 0
    /\ labels = <<>>
    /\ out = <<>>
    /\ oob = FALSE

\* debugV( e1, ..., ek ): the macro stringifies the arguments and calls
\* debugPrinter, which writes the prefix and calls printer when the policy
\* is std::true_type and does nothing otherwise.
debugV(f, l, es, sep) ==
    /\ pc = "idle"
    /\ file' = f
    /\ lineNbr' = l
    /\ exprs' = es
    /\ names' = Stringify(es, sep)
    /\ pos' = 0
    /\ labels' = <<>>
    /\ oob' = FALSE
    /\ IF Emits(DebugUtilsPolicy(on))
       THEN /\ pc' = "printing"
            /\ remaining' = Len(es)
            /\ out' = <<Basename(f), "(", ToString(l), ")", " ", "[", " ">>
       ELSE /\ pc' = "done"
            /\ remaining' = 0
            /\ out' = <<>>
    /\ UNCHANGED printerFrame

\* What one invocation of printer appends after the value.
AfterValue(more) == IF more THEN <<" ", "|", "|">> ELSE <<" ", "]", "\n">>

\* One invocation of printer whose names pointer is inside the string.
printer ==
    /\ pc = "printing"
    /\ pos <= Len(names)
    /\ LET i == Scan(names, pos, 0, 0)
           label == SubSeq(names, pos + 1, pos + i)
           j == Len(exprs) - remaining + 1
       IN /\ labels' = Append(labels, label)
          /\ out' = out \o label \o <<" ", "=", " ">> \o PrintValue(j) \o AfterValue(remaining > 1)
          /\ pos' = IF remaining > 1 THEN pos + i + 1 ELSE pos
    /\ remaining' = remaining - 1
    /\ pc' = IF remaining > 1 THEN "printing" ELSE "done"
    /\ UNCHANGED <<file, lineNbr, exprs, names, oob, printerFrame>>

\* One invocation of printer whose names pointer is past the terminating
\* NUL: every read of names[i] is outside the string literal, which is
\* undefined behaviour.  The loop stops after some number of bytes and the
\* label is whatever those bytes are.
printerPastEnd ==
    /\ pc = "printing"
    /\ pos > Len(names)
    /\ \E i \in 0 .. MaxGarbage :
          LET label == [n \in 1 .. i |-> "?"]
              j == Len(exprs) - remaining + 1
          IN /\ labels' = Append(labels, label)
             /\ out' = out \o label \o <<" ", "=", " ">> \o PrintValue(j) \o AfterValue(remaining > 1)
             /\ pos' = IF remaining > 1 THEN pos + i + 1 ELSE pos
    /\ oob' = TRUE
    /\ remaining' = remaining - 1
    /\ pc' = IF remaining > 1 THEN "printing" ELSE "done"
    /\ UNCHANGED <<file, lineNbr, exprs, names, printerFrame>>

ArgLists == UNION { [1 .. k -> ExprTexts] : k \in 1 .. MaxArgs }

PrinterNext ==
    \/ \E f \in Files, l \in Lines, es \in ArgLists, sep \in Separators : debugV(f, l, es, sep)
    \/ printer
    \/ printerPastEnd

-----------------------------------------------------------------------------
(* print: the value formatter *)

\* A type is described by what overload resolution and the requires
\* expressions of print( T&& ) see of it:
\*   prim      the non-template overload that matches it exactly, or "none";
\*   caps      "begin": begin(x) is valid; "pop": x.pop(); "first": x.first
\*             and x.second; "get": get<0>(x);
\*   adaptor   for a type with pop(): "stack" and "priority_queue" have
\*             top(), "queue" has front();
\*   elemIter  is_iterable<decltype( *begin(x) )>.
\* An object is [type, items, val]: its elements or components in storage
\* order, and for a scalar its value.
Type(prim, caps, adaptor, elemIter) ==
    [prim |-> prim, caps |-> caps, adaptor |-> adaptor, elemIter |-> elemIter]

IntType == Type("none", {}, "none", FALSE)
IntLeaf(n) == [type |-> IntType, items |-> <<>>, val |-> n]
BoolLeaf(b) == [type |-> Type("bool", {}, "none", FALSE), items |-> <<>>, val |-> b]
VectorInt(ns) ==
    [type |-> Type("none", {"begin"}, "none", FALSE),
     items |-> [i \in 1 .. Len(ns) |-> IntLeaf(ns[i])], val |-> 0]

CharPool == <<"a", "z">>
TextPool == <<"", "Test string">>

INT_MAX == 2147483647
INT_MIN == -INT_MAX - 1

\* a + b in int for b >= 0, wrapping at 32 bits.
AddInt(a, b) == IF a > INT_MAX - b THEN INT_MIN + (a - (INT_MAX - b)) - 1 ELSE a + b

Max(a, b) == IF a >= b THEN a ELSE b

RECURSIVE ILog10(_)
\* floor( log10( n ) ) for n >= 1
ILog10(n) == IF n < 10 THEN 0 ELSE 1 + ILog10(n \div 10)

\* (int) std::log10( n ) for a size_t n.  log10( 0 ) is minus infinity, and
\* converting it to int is undefined behaviour: the value is the build's.
LogAsInt(n, cast) == IF n = 0 THEN cast ELSE ILog10(n)

\* int w = std::max( 0, (int) std::log10( size(x) - 1 ) ) + 2
Width(count, cast) == AddInt(Max(0, LogAsInt(count - 1, cast)), 2)

NDigits(n) == ILog10(Max(n, 1)) + 1

\* std::cerr << std::setw(w) << std::left << f: the digits, then fill up to w.
IndexField(f, w) == <<ToString(f)>> \o [i \in 1 .. Max(0, w - NDigits(f)) |-> " "]

RECURSIVE Join(_, _)
\* the pieces in order, sep between two of them (f++ ? "," : "")
Join(pieces, sep) ==
    IF Len(pieces) = 0 THEN <<>>
    ELSE IF Len(pieces) = 1 THEN pieces[1]
    ELSE pieces[1] \o sep \o Join(Tail(pieces), sep)

RECURSIVE Concat(_)
Concat(pieces) == IF Len(pieces) = 0 THEN <<>> ELSE pieces[1] \o Concat(Tail(pieces))

\* Overload resolution among the print overloads: a non-template overload
\* whose parameter matches the argument exactly is preferred to the
\* template, which matches everything exactly.
Overload(t) == IF t.prim # "none" THEN t.prim ELSE "template"

\* Mutant of TemplateRule: the tuple test is placed before the pair test.
TemplateRuleTupleFirst(t) ==
    IF "begin" \in t.caps /\ t.prim # "string" THEN "iterable"
    ELSE IF "pop" \in t.caps THEN "drain"
    ELSE IF "get" \in t.caps THEN "tuple"
    ELSE IF "first" \in t.caps THEN "pair"
    ELSE "default"

\* The if constexpr chain of print( T&& ).
TemplateRule(t) ==
    IF "begin" \in t.caps /\ t.prim # "string" THEN "iterable"
    ELSE IF "pop" \in t.caps THEN "drain"
    ELSE IF "first" \in t.caps THEN "pair"
    ELSE IF "get" \in t.caps THEN "tuple"
    ELSE "default"

Rule(t) == IF Overload(t) = "template" THEN TemplateRule(t) ELSE Overload(t)

\* Mutant of DeclareTemp: auto& temp{ x }, temp names x itself.
DeclareTempByRef(x) == [orig |-> x.items, copy |-> <<>>, ref |-> "orig"]

\* auto temp{ x }: temp is a new object holding a copy of x's elements.
DeclareTemp(x) == [orig |-> x.items, copy |-> x.items, ref |-> "copy"]

\* Index in the storage of the element top() or front() returns.
NextOut(adaptor, temp) ==
    IF adaptor = "stack" THEN Len(temp)
    ELSE IF adaptor = "queue" THEN 1
    ELSE CHOOSE k \in 1 .. Len(temp) :
            /\ \A j \in 1 .. Len(temp) : temp[j].val <= temp[k].val
            /\ \A j \in 1 .. k - 1 : temp[j].val < temp[k].val

\* pop()
Without(temp, k) == SubSeq(temp, 1, k - 1) \o SubSeq(temp, k + 1, Len(temp))

RECURSIVE print(_, _)
RECURSIVE DrainLoop(_, _, _, _)

\* while ( !temp.empty() ) ... print( temp.top() or temp.front() ), temp.pop()
DrainLoop(store, adaptor, acc, cast) ==
    LET temp == store[store.ref] IN
    IF Len(temp) = 0 THEN [pieces |-> acc, store |-> store]
    ELSE LET k == NextOut(adaptor, temp) IN
         DrainLoop([store EXCEPT ![store.ref] = Without(temp, k)], adaptor,
                   Append(acc, print(temp[k], cast).out), cast)

\* print( x ): what is written, the rule that wrote it, and x afterwards.
print(x, cast) ==
    LET t == x.type
        rule == Rule(t)
        n == Len(x.items)
        each == [i \in 1 .. n |-> print(x.items[i], cast)]
        outs == [i \in 1 .. n |-> each[i].out]
        after == [x EXCEPT !.items = [i \in 1 .. n |-> each[i].x]]
    IN
    CASE rule = "cstr" -> [out |-> <<TextPool[x.val]>>, rule |-> rule, x |-> x]
      [] rule = "char" -> [out |-> <<"'", CharPool[x.val], "'">>, rule |-> rule, x |-> x]
      [] rule = "bool" -> [out |-> <<IF x.val = 1 THEN "T" ELSE "F">>, rule |-> rule, x |-> x]
      [] rule = "string" -> [out |-> <<"\"", TextPool[x.val], "\"">>, rule |-> rule, x |-> x]
      [] rule = "vecbool" ->
            [out |-> <<"{">> \o Join([i \in 1 .. n |-> <<IF x.items[i].val = 1 THEN "T" ELSE "F">>], <<",">>) \o <<"}">>,
             rule |-> rule, x |-> x]
      [] rule = "iterable" ->
            IF n # 0 /\ t.elemIter
            THEN LET w == Width(n, cast) IN
                 [out |-> <<"\n", "~~~~~", "\n">>
                          \o Concat([i \in 1 .. n |-> IndexField(i - 1, w) \o outs[i] \o <<"\n">>])
                          \o <<"~~~~~", "\n">>,
                  rule |-> rule, x |-> after]
            ELSE [out |-> <<"{">> \o Join(outs, <<",">>) \o <<"}">>, rule |-> rule, x |-> after]
      [] rule = "drain" ->
            LET r == DrainLoop(DeclareTemp(x), t.adaptor, <<>>, cast) IN
            [out |-> <<"{">> \o Join(r.pieces, <<",">>) \o <<"}">>,
             rule |-> rule, x |-> [x EXCEPT !.items = r.store.orig]]
      [] rule = "pair" ->
            [out |-> <<"(">> \o outs[1] \o <<",">> \o outs[2] \o <<")">>,
             rule |-> rule,
             x |-> [x EXCEPT !.items = [i \in 1 .. n |-> IF i <= 2 THEN each[i].x ELSE x.items[i]]]]
      [] rule = "tuple" ->
            [out |-> <<"(">> \o Join(outs, <<",">>) \o <<")">>, rule |-> rule, x |-> x]
      [] OTHER -> [out |-> <<ToString(x.val)>>, rule |-> rule, x |-> x]

\* The objects the model formats.
Leaves ==
    {IntLeaf(n) : n \in 1 .. MaxElem}
    \cup {BoolLeaf(b) : b \in 0 .. 1}
    \cup {[type |-> Type(p, {}, "none", FALSE), items |-> <<>>, val |-> v] :
            p \in {"cstr", "char"}, v \in 1 .. 2}
    \cup {[type |-> Type("string", {"begin"}, "none", FALSE), items |-> <<>>, val |-> v] :
            v \in 1 .. 2}

ShortLists == UNION { [1 .. n -> 1 .. MaxElem] : n \in 0 .. MaxLen }
LongLists == { [i \in 1 .. n |-> i] : n \in MaxLen + 1 .. MaxCount }
Lists == ShortLists \cup LongLists

VecBools ==
    {[type |-> Type("vecbool", {"begin"}, "none", FALSE),
      items |-> [i \in 1 .. Len(l) |-> BoolLeaf(l[i] - 1)], val |-> 0] :
        l \in UNION { [1 .. n -> 1 .. 2] : n \in 0 .. MaxLen }}

\* Class types: every combination of the four capabilities but none at all.
ClassTypes ==
    {Type("none", c, a, e) :
        c \in (SUBSET {"begin", "pop", "first", "get"}) \ {{}},
        a \in {"none", "stack", "priority_queue", "queue"},
        e \in BOOLEAN}

WellFormed(t) ==
    /\ (t.adaptor # "none") = ("pop" \in t.caps)
    /\ t.elemIter => "begin" \in t.caps

\* The elements of a container of containers are vectors of int.
Items(t, l) ==
    [i \in 1 .. Len(l) |-> IF t.elemIter THEN VectorInt(<<l[i], l[i] + 1>>) ELSE IntLeaf(l[i])]

Objects ==
    {[type |-> t, items |-> Items(t, l), val |-> 0] :
        t \in {u \in ClassTypes : WellFormed(u)},
        l \in Lists}

Values ==
    Leaves \cup VecBools
    \cup {o \in Objects : "first" \in o.type.caps => Len(o.items) >= 2}

\* Outcomes of converting minus infinity to int: most targets give INT_MIN,
\* some give INT_MAX.
NegInfAsInt == {INT_MIN, INT_MAX}

FormatInit ==
    /\ castNegInf \in NegInfAsInt
    /\ fpc = "idle"
    /\ fx \in Values
    /\ fx0 = fx
    /\ fout = <<>>
    /\ frule = "none"

IdleFormat ==
    /\ castNegInf = INT_MIN
    /\ fpc = "idle"
    /\ fx = IntLeaf(1)
    /\ fx0 = fx
    /\ fout = <<>>
    /\ frule = "none"

\* print( x )
PrintCall ==
    /\ fpc = "idle"
    /\ LET r == print(fx, castNegInf)
       IN /\ fout' = r.out
          /\ frule' = r.rule
          /\ fx' = r.x
    /\ fpc' = "done"
    /\ UNCHANGED <<castNegInf, fx0, formatFrame>>

FormatNext == PrintCall

-----------------------------------------------------------------------------
(* Specifications *)

Init == on \in BOOLEAN /\ SinkInit /\ PrinterInit /\ IdleFormat

Next == SinkNext

Spec == Init /\ [][Next]_vars

SpecPrinter == Init /\ [][PrinterNext]_vars

InitFormat == on = TRUE /\ SinkInit /\ PrinterInit /\ FormatInit

SpecFormat == InitFormat /\ [][FormatNext]_vars

-----------------------------------------------------------------------------
(* The switch and the guards: C1, C2, C7, C10 *)

\* C1: with the switch off, whatever calls of debugPrinter, debugPrinterArr
\* and debugMsg and whatever constructions and destructions of guards have
\* happened, nothing has been written to the diagnostic sink, std::cerr still
\* has its original buffer, and no guard has opened a log file.
C1_SwitchOffNoEffect ==
    ~on => /\ log = <<>>
           /\ rdbuf = OrigBuf
           /\ \A g \in GuardIds : ~guards[g].opened /\ guards[g].saved = NullBuf

\* Switch off, all the calls made, one guard destroyed and another alive.
C1_Witness ==
    /\ ~on
    /\ calls >= 2
    /\ lastDead # 0
    /\ live # <<>>

\* C2: with the switch on and guards destroyed youngest first (as scoped
\* guards are), every write made while a guard whose file opened is the one
\* guard alive (its confirmation and its closing notice included) lands in
\* that guard's file, and every write made after that guard was destroyed,
\* while no guard is alive, lands in the original sink.
C2_WritesFollowGuard ==
    (on /\ lifo) =>
        \A i \in DOMAIN log :
            LET e == log[i] IN
            /\ (Len(e.live) = 1 /\ guards[e.live[1]].opened) => e.dest = e.live[1]
            /\ (e.live = <<>> /\ e.prev # 0 /\ guards[e.prev].opened) => e.dest = OrigBuf

\* A guard opened its file, a debug call was made during its life, it wrote
\* its closing notice, and a debug call was made after it.
C2_Witness ==
    /\ on /\ lifo
    /\ \E g \in GuardIds :
          /\ guards[g].opened /\ guards[g].state = "dead"
          /\ \E i, j, k, m \in DOMAIN log :
                /\ i < j /\ j < k /\ k < m
                /\ log[i].msg = "redirected" /\ log[i].by = g
                /\ log[j].by = 0 /\ log[j].live = <<g>>
                /\ log[k].msg = "closing" /\ log[k].by = g
                /\ log[m].by = 0 /\ log[m].live = <<>> /\ log[m].prev = g

\* C7: with the switch on and guards destroyed youngest first, a guard whose
\* file did not open saves and installs no buffer, reports the failure
\* exactly once, and, when it is the one guard alive or the last destroyed
\* with none alive, std::cerr has its original buffer and every write made
\* then (the report included) lands in the original sink.
C7_OpenFailureDegrades ==
    (on /\ lifo) =>
        \A g \in GuardIds :
            (guards[g].state # "none" /\ ~guards[g].opened) =>
                /\ guards[g].saved = NullBuf
                /\ (live = <<g>> \/ (live = <<>> /\ lastDead = g)) => rdbuf = OrigBuf
                /\ Cardinality({i \in DOMAIN log : log[i].msg = "unable" /\ log[i].by = g}) = 1
                /\ \A i \in DOMAIN log :
                      (log[i].live = <<g>> \/ (log[i].live = <<>> /\ log[i].prev = g))
                          => log[i].dest = OrigBuf

\* A guard failed to open its file, a debug call was made during its life,
\* it was destroyed, and a debug call was made after that.
C7_Witness ==
    /\ on /\ lifo
    /\ \E g \in GuardIds :
          /\ ~guards[g].opened /\ guards[g].state = "dead"
          /\ \E i, j, k, m \in DOMAIN log :
                /\ i < j /\ j < k /\ k < m
                /\ log[i].msg = "unable" /\ log[i].by = g
                /\ log[j].by = 0 /\ log[j].live = <<g>>
                /\ log[k].msg = "closing" /\ log[k].by = g
                /\ log[m].by = 0 /\ log[m].live = <<>> /\ log[m].prev = g

RECURSIVE InnermostOpen(_)
\* The buffer of the youngest live guard whose file opened, else the original.
InnermostOpen(lv) ==
    IF Len(lv) = 0 THEN OrigBuf
    ELSE IF guards[lv[Len(lv)]].opened THEN lv[Len(lv)]
    ELSE InnermostOpen(SubSeq(lv, 1, Len(lv) - 1))

\* C10: with the switch on, as long as guards are destroyed youngest first,
\* std::cerr's buffer is the file of the innermost live guard whose open
\* succeeded, and the original buffer when there is none; so it is the
\* original buffer once every guard is destroyed.
C10_NestedGuardsRestore ==
    (on /\ lifo) => rdbuf = InnermostOpen(live)

\* An inner guard whose file opened has been destroyed while the outer
\* guard, whose file opened too, is still alive: std::cerr is back on the
\* outer guard's file.
C10_Witness ==
    /\ on /\ lifo
    /\ Len(live) = 1
    /\ lastDead > live[1]
    /\ guards[live[1]].opened /\ guards[lastDead].opened
    /\ rdbuf = live[1]

-----------------------------------------------------------------------------
(* The labeled-values printer: C3, C4, C9 *)

RECURSIVE TrimLeft(_)
TrimLeft(str) == IF Len(str) > 0 /\ str[1] = " " THEN TrimLeft(Tail(str)) ELSE str

RECURSIVE TrimRight(_)
TrimRight(str) ==
    IF Len(str) > 0 /\ str[Len(str)] = " " THEN TrimRight(SubSeq(str, 1, Len(str) - 1)) ELSE str

Trim(str) == TrimRight(TrimLeft(str))

\* The labels are the expressions, white space around a label aside.
SplitIsRight ==
    /\ ~oob
    /\ Len(labels) = Len(exprs)
    /\ \A j \in DOMAIN labels : Trim(labels[j]) = exprs[j]

\* C3: when a call of the printer has finished, label j is the text of
\* argument expression j (up to white space around it): the names string is
\* split only at commas outside parentheses, angle brackets, braces and
\* square brackets.
C3_LabelsAreExpressions ==
    (on /\ pc = "done") => SplitIsRight

\* The line the call is to write: the prefix once, name = value entries
\* joined by " || ", then " ]" and a newline.
ExpectedLine ==
    <<Basename(file), "(", ToString(lineNbr), ")", " ", "[", " ">>
    \o Join([j \in DOMAIN exprs |-> exprs[j] \o <<" ", "=", " ">> \o <<ToString(j)>>],
            <<" ", "|", "|", " ">>)
    \o <<" ", "]", "\n">>

\* C4: with the switch on, a finished call whose labels are the expressions
\* has written exactly <basename>(<line>) [ n1 = v1 || n2 = v2 ... ] and a
\* newline, the entries joined by " || " whatever the spacing of the names
\* string.
C4_LineFormat ==
    (on /\ pc = "done" /\ SplitIsRight) => out = ExpectedLine

\* C9: every invocation of printer starts with its names pointer inside the
\* string (at most at the terminating NUL), no read goes past the NUL, and a
\* finished call has consumed exactly one label per value.
C9_ScanStaysInString ==
    /\ ~oob
    /\ pc = "printing" => pos <= Len(names)
    /\ (on /\ pc = "done") => Len(labels) = Len(exprs)

-----------------------------------------------------------------------------
(* The value formatter: C5, C6, C8 *)

Order == <<"primitive", "boolseq", "iterable", "drain", "pair", "tuple", "default">>

\* The formatting rules a type qualifies for.
Capabilities(t) ==
    (IF t.prim \in {"cstr", "char", "bool", "string"} THEN {"primitive"} ELSE {})
    \cup (IF t.prim = "vecbool" THEN {"boolseq"} ELSE {})
    \cup (IF "begin" \in t.caps /\ t.prim # "string" THEN {"iterable"} ELSE {})
    \cup (IF "pop" \in t.caps THEN {"drain"} ELSE {})
    \cup (IF "first" \in t.caps THEN {"pair"} ELSE {})
    \cup (IF "get" \in t.caps THEN {"tuple"} ELSE {})
    \cup {"default"}

FirstCapability(t) ==
    Order[CHOOSE k \in DOMAIN Order :
            /\ Order[k] \in Capabilities(t)
            /\ \A j \in 1 .. k - 1 : Order[j] \notin Capabilities(t)]

RuleClass(r) ==
    IF r \in {"cstr", "char", "bool", "string"} THEN "primitive"
    ELSE IF r = "vecbool" THEN "boolseq"
    ELSE r

\* What the output of each rule looks like from outside.
ShapeOf(r, o, x) ==
    CASE r = "primitive" -> Len(o) \in {1, 3}
      [] r = "boolseq" -> o[1] = "{" /\ o[Len(o)] = "}"
      [] r = "iterable" -> (o[1] = "{" /\ o[Len(o)] = "}") \/ (o[1] = "\n" /\ o[2] = "~~~~~")
      [] r = "drain" -> o[1] = "{" /\ o[Len(o)] = "}"
      [] r = "pair" -> o[1] = "(" /\ o[Len(o)] = ")" /\ Len(o) = 5
      [] r = "tuple" -> o[1] = "(" /\ o[Len(o)] = ")" /\ Len(o) = Max(2, 2 * Len(x.items) + 1)
      [] OTHER -> Len(o) = 1

\* C5: a value is formatted by exactly one rule, the first it qualifies for
\* in the order primitive overloads, boolean sequence, iterable, drainable,
\* pair-like, tuple-like, default stream output.
C5_FirstMatchingRule ==
    fpc = "done" =>
        /\ RuleClass(frule) = FirstCapability(fx0.type)
        /\ ShapeOf(RuleClass(frule), fout, fx0)

\* A type that is pair-like and tuple-like, with three components, was
\* formatted as a pair.
C5_Witness ==
    /\ fpc = "done"
    /\ fx0.type.caps = {"first", "get"}
    /\ Len(fx0.items) = 3
    /\ frule = "pair"

RECURSIVE Reverse(_)
Reverse(q) == IF Len(q) = 0 THEN <<>> ELSE Append(Reverse(Tail(q)), q[1])

RECURSIVE Descending(_)
\* The values of q, largest first.
Descending(q) ==
    IF Len(q) = 0 THEN <<>>
    ELSE LET k == CHOOSE i \in DOMAIN q : \A j \in DOMAIN q : q[j] <= q[i]
         IN <<q[k]>> \o Descending(SubSeq(q, 1, k - 1) \o SubSeq(q, k + 1, Len(q)))

\* The order in which a structure gives up the values pushed as q.
RemovalOrder(adaptor, q) ==
    IF adaptor = "stack" THEN Reverse(q)
    ELSE IF adaptor = "queue" THEN q
    ELSE Descending(q)

\* C6: formatting a drainable structure writes { + its elements in removal
\* order joined by , + } and leaves the structure as it was.
C6_DrainLeavesOriginal ==
    (fpc = "done" /\ frule = "drain") =>
        LET pushed == [i \in DOMAIN fx0.items |-> fx0.items[i].val]
            order == RemovalOrder(fx0.type.adaptor, pushed)
        IN /\ fx = fx0
           /\ fout = <<"{">> \o Join([i \in DOMAIN order |-> <<ToString(order[i])>>], <<",">>) \o <<"}">>

\* A stack with 1, 2, 3 pushed in order was rendered {3,2,1} and still holds
\* its three elements.
C6_Witness ==
    /\ fpc = "done" /\ frule = "drain"
    /\ fx0.type.adaptor = "stack"
    /\ [i \in DOMAIN fx0.items |-> fx0.items[i].val] = <<1, 2, 3>>
    /\ fout = <<"{", "3", ",", "2", ",", "1", "}">>
    /\ Len(fx.items) = 3

\* The width the index field is to have for a sequence of count elements.
ClaimedWidth(count) == Max(0, IF count = 1 THEN 0 ELSE ILog10(count - 1)) + 2

\* One line of the block: the index left-aligned in the field, the element
\* (a vector of the ints e and e + 1), a newline.
BlockLine(f, w, e) ==
    <<ToString(f)>> \o [i \in 1 .. w - NDigits(f) |-> " "]
    \o <<"{", ToString(e), ",", ToString(e + 1), "}">> \o <<"\n">>

\* C8: a non-empty sequence of iterable elements is written as a block
\* between ~~~~~ lines, one line per element in order, each starting with
\* the element's index in a field of width max(0, floor(log10(count-1))) + 2
\* (2 for 1 to 10 elements, 3 for 11 to 100); an empty sequence or one of
\* non-iterable elements is written {e0,e1,...}.
C8_NestedBlock ==
    (fpc = "done" /\ frule = "iterable") =>
        LET n == Len(fx0.items) IN
        IF n # 0 /\ fx0.type.elemIter
        THEN fout = <<"\n", "~~~~~", "\n">>
                    \o Concat([i \in 1 .. n |->
                                 BlockLine(i - 1, ClaimedWidth(n), fx0.items[i].items[1].val)])
                    \o <<"~~~~~", "\n">>
        ELSE fout = <<"{">>
                    \o Join([i \in 1 .. n |->
                               IF fx0.type.elemIter
                               THEN <<"{", ToString(fx0.items[i].items[1].val), ",",
                                      ToString(fx0.items[i].items[1].val + 1), "}">>
                               ELSE <<ToString(fx0.items[i].val)>>], <<",">>)
                    \o <<"}">>

\* C8 on the builds where the conversion of minus infinity yields INT_MIN.
C8_WhereCastIsIntMin == castNegInf = INT_MIN => C8_NestedBlock

====
